---- MODULE Spec2Model ----
(***************************************************************************)
(* Model of the wire-level primitives of eolib (src/data/mod.rs and        *)
(* src/encrypt/*.rs): the EO number codec, the map-string obfuscator, the  *)
(* packet cipher, the legacy string cipher and the server verification     *)
(* hash.                                                                   *)
(*                                                                         *)
(* The library is stateless: the state of the model is one caller, the     *)
(* buffer or number it owns, and the calls it has made on it.  Each action *)
(* is one call of one public function.  A call that panics ends the run of *)
(* that caller (outcome = "panic").                                        *)
(*                                                                         *)
(* Rust integer arithmetic depends on the build: with overflow checks (the *)
(* default of the dev and test profiles) an overflowing +, -, * or abs()   *)
(* panics, without them (the default of the release profile) it wraps.     *)
(* The variable overflow_checks is the build the caller runs.              *)
(*                                                                         *)
(* TLC's integers are 32 bits wide, so every i32 operation that            *)
(* may overflow is computed on 16-bit limbs, and i64 values are held as    *)
(* sign and magnitude, the magnitude in little-endian base-253 digits      *)
(* (every i64 divisor of the codec is a power of CHAR_MAX = 253).          *)
(***************************************************************************)
EXTENDS Integers, Sequences, FiniteSets, TLC

VARIABLES
    overflow_checks, \* TRUE: the build panics on integer overflow; FALSE: it wraps
    unit,            \* the component this caller exercises
    key,             \* the key of the cipher calls (0 where the unit takes none)
    orig,            \* the byte buffer as the caller created it
    buf,             \* the byte buffer now (mutated in place, or the last result)
    arg,             \* the byte buffer handed to the last call
    num0,            \* the integer argument of the caller (number, challenge)
    num,             \* the last integer result (decode_number, hash)
    trace,           \* the names of the calls made, oldest first
    outcome          \* "ok", "InvalidValue" (Err returned) or "panic"

vars == <<overflow_checks, unit, key, orig, buf, arg, num0, num, trace, outcome>>

----------------------------------------------------------------------------
(* Bounds of the model. *)

\* longest packet / obfuscator buffer the caller creates
MaxLen == 3
\* most calls one caller makes on its buffer
MaxOps == 2
\* longest text (in bytes) handed to the legacy string cipher
MaxTextLen == 2
\* the numbers n - Delta .. n + Delta around each pivot n are encoded
Delta == 2

----------------------------------------------------------------------------
(* Program constants. *)

CHAR_MAX == 253
SHORT_MAX == 64009
THREE_MAX == 16194277
I32_MAX == 2147483647
I32_MIN == -I32_MAX - 1
\* "between 6 and 12": the range of the packet swap multiples
SwapMin == 6
SwapMax == 12

----------------------------------------------------------------------------
(* i32 arithmetic on 16-bit limbs: x = Hi(x) * 65536 + Lo(x).  Each         *)
(* operation yields [ovf, val]: whether the exact result leaves the i32     *)
(* range, and the result wrapped to 32 bits.                                *)

Limb == 256 * 256
Hi(x) == x \div Limb
Lo(x) == x % Limb

Norm32(hi, lo) ==
    [ovf |-> ~(hi \in -32768..32767),
     val |-> (((hi + 32768) % Limb) - 32768) * Limb + lo]

I32Add(a, b) ==
    LET s == Lo(a) + Lo(b)
    IN  Norm32(Hi(a) + Hi(b) + (s \div Limb), s % Limb)

I32Sub(a, b) ==
    LET s == Lo(a) - Lo(b)
    IN  Norm32(Hi(a) - Hi(b) + (s \div Limb), s % Limb)

\* a * b for a small factor 0 <= a < 32768 (an index or a byte) and any i32 b
I32Mul(a, b) ==
    LET p == a * Lo(b)
    IN  Norm32(a * Hi(b) + (p \div Limb), p % Limb)

\* Rust's % : the remainder has the sign of the dividend (m > 0)
RustRem(x, m) ==
    LET r == x % m
    IN  IF x < 0 /\ r # 0 THEN r - m ELSE r

\* `x as u8` and `x & 0xFF` of an i32
AsU8(x) == x % 256

Min(S) == CHOOSE x \in S : \A y \in S : x <= y

\* An in-place loop over a buffer b whose step i computes R[i] = [ovf, val]:
\* a checked build panics at the first overflowing step and leaves the bytes
\* from there on as they were; an unchecked build stores every wrapped value.
InPlace(b, R) ==
    LET bad == {i \in 1..Len(b) : R[i].ovf}
        p   == IF overflow_checks /\ bad # {} THEN Min(bad) ELSE Len(b) + 1
    IN  [panic |-> p <= Len(b),
         buf   |-> [i \in 1..Len(b) |-> IF i < p THEN R[i].val ELSE b[i]]]

----------------------------------------------------------------------------
(* Packet cipher: src/encrypt/mod.rs, encrypt_packet.rs, decrypt_packet.rs. *)
(* Buffers are 1-indexed here; the loops of the source run i over 1..=len   *)
(* and touch buf[i - 1], which is b[i] here.                                *)

\* valid_for_encryption without the test of the FF FF marker
valid_for_encryption_no_marker(b) ==
    Len(b) > 2

valid_for_encryption(b) ==
    Len(b) > 2 /\ ~(b[1] = 255 /\ b[2] = 255)

\* val = (((val + 3) % 256) + key + i as i32) & 0xFF
EncryptByte(v, k, i) ==
    LET a1 == I32Add(RustRem(v + 3, 256), k)
        a2 == I32Add(a1.val, i)
    IN  [ovf |-> a1.ovf \/ a2.ovf, val |-> AsU8(a2.val)]

\* val = (((val + 253) % 256) - key - i as i32) & 0xFF
DecryptByte(v, k, i) ==
    LET a1 == I32Sub(RustRem(v + 253, 256), k)
        a2 == I32Sub(a1.val, i)
    IN  [ovf |-> a1.ovf \/ a2.ovf, val |-> AsU8(a2.val)]

encrypt_packet(b, k) ==
    IF ~valid_for_encryption(b)
    THEN [panic |-> FALSE, buf |-> b]
    ELSE InPlace(b, [i \in 1..Len(b) |-> EncryptByte(b[i], k, i)])

\* magic is accepted and never read
decrypt_packet(b, k, magic) ==
    IF ~valid_for_encryption(b)
    THEN [panic |-> FALSE, buf |-> b]
    ELSE InPlace(b, [i \in 1..Len(b) |-> DecryptByte(b[i], k, i)])

----------------------------------------------------------------------------
(* String obfuscator: src/data/mod.rs, decode_string and encode_string.     *)
(* `*c += d` and `*c -= d` are u8 arithmetic.  Index i of the source is     *)
(* i - 1 here, so the even indices of the source are the odd ones here.     *)

U8Add(c, d) == [ovf |-> c + d > 255, val |-> (c + d) % 256]
U8Sub(c, d) == [ovf |-> c - d < 0, val |-> (c - d) % 256]

Shift(i) == IF (i - 1) % 2 = 0 THEN 2 ELSE 1

decode_string(b) ==
    InPlace(b, [i \in 1..Len(b) |-> U8Add(b[i], Shift(i))])

encode_string(b) ==
    InPlace(b, [i \in 1..Len(b) |-> U8Sub(b[i], Shift(i))])

----------------------------------------------------------------------------
(* i64 values: [neg, mag], mag the magnitude in little-endian base-253      *)
(* digits, of any length (missing digits are 0).                            *)

RECURSIVE ToW(_)
\* the digits of 0 <= x <= I32_MAX
ToW(x) == IF x = 0 THEN <<>> ELSE <<x % CHAR_MAX>> \o ToW(x \div CHAR_MAX)

Dig(m, i) == IF i <= Len(m) THEN m[i] ELSE 0

RECURSIVE WAddC(_, _, _)
WAddC(a, b, c) ==
    IF a = <<>> /\ b = <<>>
    THEN IF c = 0 THEN <<>> ELSE <<c>>
    ELSE LET t == Dig(a, 1) + Dig(b, 1) + c
         IN  <<t % CHAR_MAX>>
             \o WAddC(IF a = <<>> THEN a ELSE Tail(a),
                      IF b = <<>> THEN b ELSE Tail(b), t \div CHAR_MAX)

\* a + b of two magnitudes
WAdd(a, b) == WAddC(a, b, 0)

\* `x as i64` of an i32 x > I32_MIN
ToI64(x) == [neg |-> x < 0, mag |-> ToW(IF x < 0 THEN -x ELSE x)]

\* v >= CHAR_MAX^k : SHORT_MAX, THREE_MAX, INT_MAX are CHAR_MAX^2, ^3, ^4
I64Ge(v, k) == ~v.neg /\ \E i \in (k + 1)..Len(v.mag) : v.mag[i] # 0

\* v / CHAR_MAX^k and v % CHAR_MAX^k of a v >= 0
I64Div(v, k) == [neg |-> FALSE, mag |-> SubSeq(v.mag, k + 1, Len(v.mag))]
I64Mod(v, k) ==
    [neg |-> FALSE,
     mag |-> SubSeq(v.mag, 1, IF k < Len(v.mag) THEN k ELSE Len(v.mag))]

RECURSIVE WModByte(_)
\* the magnitude modulo 256
WModByte(m) ==
    IF m = <<>> THEN 0 ELSE (m[1] + CHAR_MAX * WModByte(Tail(m))) % 256

\* `v as u8`: the low 8 bits of the two's complement of v
I64AsU8(v) ==
    IF v.neg THEN (256 - WModByte(v.mag)) % 256 ELSE WModByte(v.mag)

----------------------------------------------------------------------------
(* Number codec: src/data/mod.rs.  bytes[j] of the source is bytes[j + 1].  *)

\* if original_number >= MAX_k {
\*     bytes[k] = (number / MAX_k) as u8 + 1;  number %= MAX_k; }
EncodeStep(original_number, st, k) ==
    IF I64Ge(original_number, k)
    THEN LET b == U8Add(I64AsU8(I64Div(st.number, k)), 1)
         IN  [number |-> I64Mod(st.number, k),
              bytes  |-> [st.bytes EXCEPT ![k + 1] = b.val],
              ovf    |-> st.ovf \/ b.ovf]
    ELSE st

\* bytes[0] = number as u8 + 1
EncodeLast(st) ==
    LET b == U8Add(I64AsU8(st.number), 1)
    IN  [number |-> st.number,
         bytes  |-> [st.bytes EXCEPT ![1] = b.val],
         ovf    |-> st.ovf \/ b.ovf]

\* number.abs() as i64 + i32::MAX as i64, for number < 0.  abs() of I32_MIN
\* overflows: a checked build panics, an unchecked one yields I32_MIN.
Unwrap(number) ==
    IF number = I32_MIN
    THEN [ovf |-> TRUE, val |-> ToI64(I32_MIN + I32_MAX)]
    ELSE [ovf |-> FALSE,
          val |-> [neg |-> FALSE, mag |-> WAdd(ToW(-number), ToW(I32_MAX))]]

encode_number(number) ==
    LET u  == IF number < 0 THEN Unwrap(number)
              ELSE [ovf |-> FALSE, val |-> ToI64(number)]
        original_number == u.val
        s0 == [number |-> u.val, bytes |-> <<254, 254, 254, 254>>, ovf |-> u.ovf]
        s3 == EncodeStep(original_number, s0, 3)
        s2 == EncodeStep(original_number, s3, 2)
        s1 == EncodeStep(original_number, s2, 1)
        s  == EncodeLast(s1)
    IN  IF overflow_checks /\ u.ovf
        THEN [status |-> "panic", bytes |-> <<>>]
        ELSE IF I64Ge(original_number, 4)
        THEN [status |-> "InvalidValue", bytes |-> <<>>]
        ELSE IF overflow_checks /\ s.ovf
        THEN [status |-> "panic", bytes |-> <<>>]
        ELSE [status |-> "ok", bytes |-> s.bytes]

\* number is an i64 [neg, mag]; the function has no Err path
encode_number_64(number) ==
    LET s0 == [number |-> number, bytes |-> <<254, 254, 254, 254, 254>>,
               ovf |-> FALSE]
        s4 == EncodeStep(number, s0, 4)
        s3 == EncodeStep(number, s4, 3)
        s2 == EncodeStep(number, s3, 2)
        s1 == EncodeStep(number, s2, 1)
        s  == EncodeLast(s1)
    IN  IF overflow_checks /\ s.ovf
        THEN [status |-> "panic", bytes |-> <<>>]
        ELSE [status |-> "ok", bytes |-> s.bytes]

\* data[i - 1] of decode_number after its loop: a missing or zero byte is 254,
\* 254 becomes 1, then 1 is subtracted.  DecodeDigit_no_sentinel is the loop
\* without `if data[i] == 254 { data[i] = 1 }`.
DecodeDigit_no_sentinel(bytes, i) ==
    (IF Len(bytes) >= i /\ bytes[i] # 0 THEN bytes[i] ELSE 254) - 1

DecodeDigit(bytes, i) ==
    LET d == IF Len(bytes) >= i /\ bytes[i] # 0 THEN bytes[i] ELSE 254
    IN  (IF d = 254 THEN 1 ELSE d) - 1

decode_number(bytes) ==
    LET t3 == I32Mul(DecodeDigit(bytes, 4), THREE_MAX).val
        t2 == I32Mul(DecodeDigit(bytes, 3), SHORT_MAX).val
        t1 == I32Mul(DecodeDigit(bytes, 2), CHAR_MAX).val
    IN  I32Add(I32Add(I32Add(t3, t2).val, t1).val, DecodeDigit(bytes, 1)).val

----------------------------------------------------------------------------
(* Verification hash: src/encrypt/server_verification_hash.rs.  The         *)
(* arithmetic is i64; the challenges of the model keep every i64 value but  *)
(* the product 110 * (..) inside TLC's integer range, and the product is   *)
(* reduced limb by limb.                                                     *)

Abs(x) == IF x < 0 THEN -x ELSE x

\* (a * b) % m as Rust computes it in i64, for 0 <= a < 32768 and m # 0
MulRem(a, b, m) ==
    LET p  == a * Lo(b)
        hi == a * Hi(b) + (p \div Limb)
        lo == p % Limb
        f  == ((hi % Abs(m)) * (Limb % Abs(m)) + lo) % Abs(m)
    IN  IF hi < 0 /\ f # 0 THEN f - Abs(m) ELSE f

\* ((x + 1) % 2023 + 1
\*   + 110 * (31072023 - (x + 1)) % (109 * ((x + 1) % 22 + 1)) * ((x + 1) % 2 + 1)
\*   + 11221) as i32
\* * and % bind alike and associate to the left.  A zero divisor panics.
server_verification_hash(x) ==
    LET t == x + 1
        m == 109 * (RustRem(t, 22) + 1)
    IN  IF m = 0
        THEN [status |-> "panic", val |-> 0]
        ELSE [status |-> "ok",
              val |-> RustRem(t, 2023) + 1
                      + MulRem(110, 31072023 - t, m) * (RustRem(t, 2) + 1)
                      + 11221]

----------------------------------------------------------------------------
(* Legacy string cipher: src/encrypt/encrypt_string.rs, decrypt_string.rs.  *)
(* A text is the sequence of its UTF-8 bytes.                                *)

Utf8Width(l) ==
    IF l < 128 THEN 1
    ELSE IF l \in 194..223 THEN 2
    ELSE IF l \in 224..239 THEN 3
    ELSE IF l \in 240..244 THEN 4
    ELSE 0

Utf8Second(l) ==
    CASE l = 224 -> 160..191
      [] l = 237 -> 128..159
      [] l = 240 -> 144..191
      [] l = 244 -> 128..143
      [] OTHER   -> 128..191

RECURSIVE Utf8Lossy(_)
\* String::from_utf8_lossy(..).to_string(): a well-formed sequence is kept,
\* every maximal ill-formed part becomes U+FFFD (EF BF BD)
Utf8Lossy(b) ==
    IF b = <<>> THEN <<>>
    ELSE LET w   == Utf8Width(b[1])
             m2  == w >= 2 /\ Len(b) >= 2 /\ b[2] \in Utf8Second(b[1])
             m3  == m2 /\ w >= 3 /\ Len(b) >= 3 /\ b[3] \in 128..191
             m4  == m3 /\ w >= 4 /\ Len(b) >= 4 /\ b[4] \in 128..191
             got == IF m4 THEN 4 ELSE IF m3 THEN 3 ELSE IF m2 THEN 2 ELSE 1
         IN  IF w = got
             THEN SubSeq(b, 1, w) \o Utf8Lossy(SubSeq(b, w + 1, Len(b)))
             ELSE <<239, 191, 189>> \o Utf8Lossy(SubSeq(b, got + 1, Len(b)))

\* encrypted_value = ((c as i32 + (i + 1) as i32 * key) % 256) as u8,
\* i + 1 of the source being the index i here
EncryptChar(c, k, i) ==
    LET m == I32Mul(i, k)
        a == I32Add(c, m.val)
    IN  [ovf |-> m.ovf \/ a.ovf, val |-> AsU8(RustRem(a.val, 256))]

encrypt_string(str, k) ==
    LET R == [i \in 1..Len(str) |-> EncryptChar(str[i], k, i)]
        result == [j \in 1..(2 * Len(str)) |->
                     IF j % 2 = 1 THEN 65 + (R[(j + 1) \div 2].val \div 24)
                     ELSE 65 + (R[j \div 2].val % 24)]
    IN  IF overflow_checks /\ \E i \in 1..Len(str) : R[i].ovf
        THEN [panic |-> TRUE, text |-> <<>>]
        ELSE [panic |-> FALSE, text |-> Utf8Lossy(result)]

\* pair p (1-based) is bytes[i], bytes[i + 1] of the source with i = 2 (p - 1):
\* decrypted_value = ((first * 24 + second - (i / 2 + 1) * key) & 0xFF) as u8
DecryptPair(b0, b1, k, p) ==
    LET encrypted_value == (b0 - 65) * 24 + (b1 - 65)
        m == I32Mul(p, k)
        d == I32Sub(encrypted_value, m.val)
    IN  [ovf |-> m.ovf \/ d.ovf, val |-> AsU8(d.val)]

\* the loop visits i = 0, 2, .. < len and reads bytes[i + 1]: with an odd
\* length the last read is out of bounds and panics in every build
decrypt_string(encrypted_str, k) ==
    LET n == Len(encrypted_str) \div 2
        R == [p \in 1..n |->
                DecryptPair(encrypted_str[2 * p - 1], encrypted_str[2 * p], k, p)]
    IN  IF Len(encrypted_str) % 2 = 1
           \/ (overflow_checks /\ \E p \in 1..n : R[p].ovf)
        THEN [panic |-> TRUE, text |-> <<>>]
        ELSE [panic |-> FALSE, text |-> Utf8Lossy([p \in 1..n |-> R[p].val])]

----------------------------------------------------------------------------
(* The inputs the callers draw. *)

SeqsUpTo(S, n) == UNION {[1..k -> S] : k \in 0..n}

\* bytes at both ends of the range, and 244, 245: the bytes key 6 sends to 255
ByteSamples == {0, 1, 244, 245, 254, 255}
Buffers == SeqsUpTo(ByteSamples, MaxLen)

\* the buffers of the example in the documentation of encrypt_packet and
\* decrypt_packet
DocPlain ==
    <<21, 18, 145, 72, 101, 108, 108, 111, 44, 32, 119, 111, 114, 108, 100, 33>>
DocCipher ==
    <<149, 161, 146, 228, 17, 242, 200, 236, 229, 239, 236, 247, 236, 160, 239, 172>>

PacketKeys == (SwapMin..SwapMax) \cup {0, I32_MAX}
Magics == {0, 1}

Around(S) == {p + d : p \in S, d \in (-Delta)..Delta}

\* i32 numbers: around 0, the digit thresholds, the documented vectors, the
\* negative number whose unwrapped value is INT_MAX, and both ends of i32
Numbers32 ==
    Around({0, CHAR_MAX, SHORT_MAX, THREE_MAX, 533, 888888, 18994242,
            252 * SHORT_MAX, -1949668434})
    \cup {I32_MAX - d : d \in 0..Delta} \cup {I32_MIN + d : d \in 0..Delta}

\* i64 numbers: q * INT_MAX + r for q around 0 and around 253..256 and a few
\* r < INT_MAX, the non-negative i32 numbers, and a few negative ones
Numbers64 ==
    {[neg |-> FALSE, mag |-> r \o ToW(q)] :
        r \in {<<0, 0, 0, 0>>, <<1, 0, 0, 0>>, <<252, 252, 252, 252>>},
        q \in (1..Delta) \cup ((CHAR_MAX - Delta)..(256 + Delta))}
    \cup {ToI64(n) : n \in {x \in Numbers32 : x > I32_MIN}}

\* challenges around 0, the documented vector, and the value that makes
\* 31072023 - (x + 1) zero
Challenges == Around({0, 123456, 31072022}) \cup {-2 - Delta, I32_MAX - 1}

\* 'A', 'X', NUL, DEL and the two bytes of U+00E9
TextBytes == {0, 65, 88, 127, 195, 169}
Texts == {t \in SeqsUpTo(TextBytes, MaxTextLen) : Utf8Lossy(t) = t}

\* 0, +-1, the keys src/encrypt/mod.rs declares, and two huge keys
StringKeys == {0, 1, -1, 111, 120, 132, 1073741824, I32_MAX}

Units == {"packet", "obfuscator", "number", "number64", "hash", "legacy"}

----------------------------------------------------------------------------
(* The state machine. *)

InitPacket ==
    /\ unit = "packet"
    /\ key \in PacketKeys
    /\ orig \in Buffers \cup {DocPlain, DocCipher}
    /\ num0 = 0

InitObfuscator ==
    /\ unit = "obfuscator"
    /\ key = 0
    /\ orig \in Buffers
    /\ num0 = 0

InitNumber ==
    /\ unit = "number"
    /\ key = 0
    /\ orig = <<>>
    /\ num0 \in Numbers32

InitNumber64 ==
    /\ unit = "number64"
    /\ key = 0
    /\ orig = <<>>
    /\ num0 \in Numbers64

InitHash ==
    /\ unit = "hash"
    /\ key = 0
    /\ orig = <<>>
    /\ num0 \in Challenges

InitLegacy ==
    /\ unit = "legacy"
    /\ key \in StringKeys
    /\ orig \in Texts
    /\ num0 = 0

Init ==
    /\ overflow_checks \in BOOLEAN
    /\ \/ InitNumber64
       \/ InitNumber
       \/ InitPacket
       \/ InitObfuscator
       \/ InitHash
       \/ InitLegacy
    /\ buf = orig
    /\ arg = <<>>
    /\ num = 0
    /\ trace = <<>>
    /\ outcome = "ok"

\* a caller makes its next call only after a normal return, at most MaxOps times
MayCall(u) == unit = u /\ outcome = "ok" /\ Len(trace) < MaxOps

\* the call `name` on the buffer, with result r = [panic, buf]
BufferCall(name, r) ==
    /\ arg' = buf
    /\ buf' = r.buf
    /\ outcome' = IF r.panic THEN "panic" ELSE "ok"
    /\ trace' = Append(trace, name)
    /\ UNCHANGED <<overflow_checks, unit, key, orig, num0, num>>

EncryptPacket ==
    /\ MayCall("packet")
    /\ BufferCall("encrypt_packet", encrypt_packet(buf, key))

DecryptPacket ==
    /\ MayCall("packet")
    /\ \E magic \in Magics :
          BufferCall("decrypt_packet", decrypt_packet(buf, key, magic))

EncodeString ==
    /\ MayCall("obfuscator")
    /\ BufferCall("encode_string", encode_string(buf))

DecodeString ==
    /\ MayCall("obfuscator")
    /\ BufferCall("decode_string", decode_string(buf))

\* the call `name` returning a new text, with result r = [panic, text]
TextCall(name, r) ==
    /\ arg' = buf
    /\ buf' = IF r.panic THEN buf ELSE r.text
    /\ outcome' = IF r.panic THEN "panic" ELSE "ok"
    /\ trace' = Append(trace, name)
    /\ UNCHANGED <<overflow_checks, unit, key, orig, num0, num>>

EncryptString ==
    /\ MayCall("legacy")
    /\ TextCall("encrypt_string", encrypt_string(buf, key))

DecryptString ==
    /\ MayCall("legacy")
    /\ TextCall("decrypt_string", decrypt_string(buf, key))

\* the call `name` encoding num0, with result r = [status, bytes]
EncodeCall(name, r) ==
    /\ arg' = buf
    /\ buf' = IF r.status = "ok" THEN r.bytes ELSE buf
    /\ outcome' = r.status
    /\ trace' = Append(trace, name)
    /\ UNCHANGED <<overflow_checks, unit, key, orig, num0, num>>

EncodeNumber ==
    /\ MayCall("number")
    /\ EncodeCall("encode_number", encode_number(num0))

EncodeNumber64 ==
    /\ MayCall("number64")
    /\ EncodeCall("encode_number_64", encode_number_64(num0))

DecodeNumber ==
    /\ MayCall("number")
    /\ arg' = buf
    /\ num' = decode_number(buf)
    /\ trace' = Append(trace, "decode_number")
    /\ UNCHANGED <<overflow_checks, unit, key, orig, buf, num0, outcome>>

ServerVerificationHash ==
    /\ MayCall("hash")
    /\ LET r == server_verification_hash(num0)
       IN  /\ num' = r.val
           /\ outcome' = r.status
    /\ trace' = Append(trace, "server_verification_hash")
    /\ UNCHANGED <<overflow_checks, unit, key, orig, buf, arg, num0>>

Next ==
    \/ EncryptPacket
    \/ DecryptPacket
    \/ EncodeString
    \/ DecodeString
    \/ EncryptString
    \/ DecryptString
    \/ EncodeNumber
    \/ EncodeNumber64
    \/ DecodeNumber
    \/ ServerVerificationHash

Spec == Init /\ [][Next]_vars

----------------------------------------------------------------------------
(* Properties. *)

Last(t) == t[Len(t)]
Calls(n) == Len(trace) >= n
LastTwo(a, b) ==
    Calls(2) /\ trace[Len(trace) - 1] = a /\ trace[Len(trace)] = b

\* the buffers the packet cipher is documented to leave alone
Exempt(b) == Len(b) <= 2 \/ (b[1] = 255 /\ b[2] = 255)

\* C1: encrypt_packet then decrypt_packet with the same key in 6..12 restores
\* every buffer longer than 2 bytes that does not start with FF FF.
C1_PacketRoundTrip ==
    (/\ unit = "packet"
     /\ trace = <<"encrypt_packet", "decrypt_packet">>
     /\ key \in SwapMin..SwapMax
     /\ ~Exempt(orig))
    => (outcome = "ok" /\ buf = orig)

\* C2: with key 6 encrypt_packet maps the documented plain buffer to the
\* documented cipher buffer, and decrypt_packet maps that back.
C2_DocVector ==
    (unit = "packet" /\ key = 6 /\ Len(trace) = 1)
    => /\ (orig = DocPlain /\ trace[1] = "encrypt_packet" => buf = DocCipher)
       /\ (orig = DocCipher /\ trace[1] = "decrypt_packet" => buf = DocPlain)

\* C3: server_verification_hash(123456) returns 300733.
C3_HashVector ==
    (unit = "hash" /\ num0 = 123456 /\ Calls(1))
    => (outcome = "ok" /\ num = 300733)

\* C4: for every n in 0..i32::MAX (all below INT_MAX), encode_number(n)
\* succeeds with 4 bytes and decode_number of them is n.
C4_NumberRoundTrip ==
    (unit = "number" /\ num0 \in 0..I32_MAX)
    => /\ (Calls(1) /\ Last(trace) = "encode_number"
             => outcome = "ok" /\ Len(buf) = 4)
       /\ (LastTwo("encode_number", "decode_number") => num = num0)

\* a number of four digits has been encoded and decoded back
C4_Witness ==
    /\ unit = "number"
    /\ trace = <<"encode_number", "decode_number">>
    /\ num0 >= THREE_MAX
    /\ buf[4] # 254
    /\ num = num0

\* the normalized magnitude of C5, in base-253 digits: n for n >= 0,
\* abs(n) + (2^31 - 1) for n < 0, with abs(-2^31) = 2^31
Magnitude(n) ==
    IF n >= 0 THEN ToW(n)
    ELSE IF n = I32_MIN THEN WAdd(WAdd(ToW(I32_MAX), ToW(1)), ToW(I32_MAX))
    ELSE WAdd(ToW(-n), ToW(I32_MAX))

\* the digits four encoded bytes stand for (254 is the zero digit)
Digits(bytes) == [i \in 1..4 |-> IF bytes[i] = 254 THEN 0 ELSE bytes[i] - 1]

\* C5: for every i32 n with normalized magnitude m, encode_number returns
\* InvalidValue when m >= 253^4 and otherwise the 4-byte encoding of m; it
\* never aborts.
C5_EncodeTotal ==
    (unit = "number" /\ Calls(1) /\ Last(trace) = "encode_number")
    => LET m == Magnitude(num0)
       IN  IF \E i \in 5..Len(m) : m[i] # 0
           THEN outcome = "InvalidValue"
           ELSE /\ outcome = "ok"
                /\ Len(buf) = 4
                /\ Digits(buf) = [i \in 1..4 |-> Dig(m, i)]

\* C6: every byte encode_number returns, and every byte encode_number_64
\* returns for a non-negative number, is in 1..254.
C6_ByteRange ==
    (/\ Calls(1)
     /\ outcome = "ok"
     /\ \/ unit = "number" /\ Last(trace) = "encode_number"
        \/ unit = "number64" /\ Last(trace) = "encode_number_64" /\ ~num0.neg)
    => \A i \in 1..Len(buf) : buf[i] \in 1..254

\* C7: on every byte buffer encode_string and decode_string complete
\* normally and undo each other, in either order.
C7_ObfuscatorInverse ==
    unit = "obfuscator"
    => /\ outcome = "ok"
       /\ (\/ trace = <<"encode_string", "decode_string">>
           \/ trace = <<"decode_string", "encode_string">>) => buf = orig

\* C8: a buffer of at most 2 bytes, or one starting with FF FF, is returned
\* unchanged and without failure by encrypt_packet and by decrypt_packet,
\* whatever the key and magic.
C8_PacketNoOp ==
    (unit = "packet" /\ Calls(1) /\ Exempt(arg))
    => (outcome = "ok" /\ buf = arg)

\* decrypt_packet has been handed a marker-prefixed buffer of 3 bytes under
\* the largest key
C8_Witness ==
    /\ unit = "packet"
    /\ Calls(1)
    /\ Last(trace) = "decrypt_packet"
    /\ key = I32_MAX
    /\ Len(arg) > 2
    /\ Exempt(arg)
    /\ buf = arg

\* the text decrypt_string is documented to return for a malformed input:
\* the complete pairs decoded, a trailing single byte dropped
Truncated(text) == SubSeq(text, 1, 2 * (Len(text) \div 2))

\* C9: decrypt_string never raises on an odd-length input: it returns the
\* decoding of the complete two-byte pairs.  Stated of the build without
\* overflow checks, where no arithmetic of decrypt_string can panic, so that
\* a panic is the read past the end of the input.
C9_DecryptTruncates ==
    (/\ unit = "legacy"
     /\ Calls(1)
     /\ Last(trace) = "decrypt_string"
     /\ Len(arg) % 2 = 1
     /\ ~overflow_checks)
    => /\ outcome = "ok"
       /\ buf = decrypt_string(Truncated(arg), key).text

\* C10: for every text and key, encrypt_string returns twice as many bytes,
\* all in 'A'..'X', and decrypt_string with the same key gives the text back.
C10_LegacyRoundTrip ==
    unit = "legacy"
    => /\ (Calls(1) /\ Last(trace) = "encrypt_string"
             => /\ outcome = "ok"
                /\ Len(buf) = 2 * Len(arg)
                /\ \A i \in 1..Len(buf) : buf[i] \in 65..88)
       /\ (trace = <<"encrypt_string", "decrypt_string">>
             => outcome = "ok" /\ buf = orig)

====
